---- MODULE Spec2Model ----
(***************************************************************************)
(* Model of mcp-ssh-executor (src/main.go): a line-delimited JSON-RPC      *)
(* dispatcher (func main) over an SSH session manager (type SSHExecutor).  *)
(*                                                                         *)
(* The process is one goroutine.  Its state is the position in the read    *)
(* loop (pc), the locals of the current iteration (line, req, result,      *)
(* rpcErr, session), the executor's client handle, and the world it acts   *)
(* on: every ssh.Client ever returned by ssh.Dial (conns), every           *)
(* ssh.Session ever returned by NewSession (sessions), and the lines       *)
(* written to standard output (stdout).  The steps are the points where    *)
(* the goroutine blocks: Scan, ssh.Dial, CombinedOutput, and the write.    *)
(***************************************************************************)
EXTENDS Integers, Sequences, FiniteSets, TLC

VARIABLES
    env,        \* the process environment read by Connect (os.Getenv)
    pc,         \* position of the main goroutine
    line,       \* scanner.Text() of the current iteration
    req,        \* the JSONRPCRequest decoded from line
    result,     \* var result interface{}
    rpcErr,     \* var rpcErr *JSONRPCError
    client,     \* executor.client: 0 is nil, else an index into conns
    conns,      \* status of every ssh.Client ever returned by ssh.Dial
    session,    \* ExecuteCommand's local session: 0 is none, else an index into sessions
    sessions,   \* status of every ssh.Session ever returned by NewSession
    stdout,     \* the response lines written so far
    nread,      \* number of input lines the scanner has consumed
    accepted,   \* history: ids of the well-formed id-bearing requests read, in order
    scanErr     \* the scanner's error (scanner.Err()): "" is nil

vars == <<env, pc, line, req, result, rpcErr, client, conns, session, sessions,
          stdout, nread, accepted, scanErr>>

\* Largest number of input lines a run consumes.
MaxLines == 4

----------------------------------------------------------------------------
(* JSON values as they appear on an input line.                             *)

\* A JSON value of a member: absent, or of one of JSON's types.
J(t, s) == [t |-> t, s |-> s]
Absent == J("absent", "")
Str(s) == J("string", s)
Num == J("number", "")

\* The "id" member: absent, null, an integer that fits int, a number with a
\* fraction or exponent, an integer outside int's range, or a string.  The
\* integer ids are 0, the zero value of an int field, and one other value;
\* the program tests the pointer and copies the value.
IdVal(t, n) == [t |-> t, n |-> n]
Ids == {-1, 0}
IntIds == {IdVal("int", n) : n \in Ids}
NoIds == {IdVal(t, 0) : t \in {"absent", "null"}}
BadIds == {IdVal(t, 0) : t \in {"frac", "big", "string"}}

\* The "arguments" member of params and the "params" member of the request.
Arguments(t, command) == [t |-> t, command |-> command]
NoArguments == Arguments("absent", Absent)
Params(t, name, arguments) == [t |-> t, name |-> name, arguments |-> arguments]
NoParams == Params("absent", Absent, NoArguments)

ExecArguments ==
    {NoArguments, Arguments("array", Absent), Arguments("object", Absent),
     Arguments("object", Num), Arguments("object", Str("echo hi"))}

CallParams ==
    {NoParams, Params("array", Absent, NoArguments), Params("number", Absent, NoArguments),
     Params("object", Absent, NoArguments), Params("object", Num, NoArguments),
     Params("object", Str("unknown_tool"), NoArguments),
     Params("object", Str("connect_ssh"), NoArguments),
     Params("object", Str("connect_ssh"), Arguments("object", Str("echo hi"))),
     Params("object", Str("disconnect_ssh"), NoArguments)}
    \cup {Params("object", Str("execute_command"), a) : a \in ExecArguments}

ToolParams ==
    {Params("object", Str(n), NoArguments) : n \in {"connect_ssh", "disconnect_ssh"}}
    \cup {Params("object", Str("execute_command"), Arguments("object", Str("echo hi")))}

\* One line of standard input.  text tells whether the line is a JSON object,
\* is not (invalid JSON, or JSON of another type), or is longer than the
\* scanner's token buffer.
Line(text, id, method, params) ==
    [text |-> text, id |-> id, method |-> method, params |-> params]
NoLine == Line("none", IdVal("absent", 0), Absent, NoParams)

\* The input lines of the model: every shape of request under every integer
\* id; the tool calls and tools/list without an id and with a null id; a
\* member of the wrong JSON type (id or method); text that is no JSON object;
\* an overlong line.
Lines ==
    {Line(t, IdVal("absent", 0), Absent, NoParams) : t \in {"notjson", "overlong"}}
    \cup {Line("object", i, Str("tools/call"), p) : i \in IntIds, p \in CallParams}
    \cup {Line("object", i, Str(m), p) :
            i \in IntIds, m \in {"initialize", "tools/list"},
            p \in {NoParams, Params("object", Str("connect_ssh"), NoArguments)}}
    \cup {Line("object", i, m, NoParams) : i \in IntIds, m \in {Absent, Str("ping")}}
    \cup {Line("object", i, Str("tools/call"), p) : i \in NoIds, p \in ToolParams}
    \cup {Line("object", i, Str("tools/list"), NoParams) : i \in NoIds \cup BadIds}
    \cup {Line("object", IdVal("int", 0), Num, NoParams)}

----------------------------------------------------------------------------
(* Go values.                                                               *)

\* *int
IntPtr(nil, v) == [nil |-> nil, v |-> v]
NilInt == IntPtr(TRUE, 0)

\* JSONRPCRequest; its zero value.
Request(id, method, params) == [Id |-> id, Method |-> method, Params |-> params]
ZeroRequest == Request(NilInt, "", NoParams)

\* *JSONRPCError
RPCError(code, message) == [nil |-> FALSE, code |-> code, message |-> message]
NilError == [nil |-> TRUE, code |-> 0, message |-> ""]

\* interface{} holding nil, the initialize map, a ListToolsResult or a CallToolResult.
NilResult == [kind |-> "nil", text |-> "", isError |-> FALSE, tools |-> <<>>]
CallToolResult(text, isError) ==
    [kind |-> "call", text |-> text, isError |-> isError, tools |-> <<>>]

\* The initialize result (a map) and the tools/list result (ListToolsResult).
InitializeResult ==
    [kind |-> "initialize", text |-> "2024-11-05", isError |-> FALSE, tools |-> <<>>]
ListToolsResult ==
    [kind |-> "tools", text |-> "", isError |-> FALSE,
     tools |-> <<"connect_ssh", "execute_command", "disconnect_ssh">>]

\* Method not found reported under the code of an invalid request.
MethodNotFound_InvalidRequest == RPCError(-32600, "Method not found")

InvalidParams == RPCError(-32602, "Invalid params")
MethodNotFound == RPCError(-32601, "Method not found")

\* The process environment: SSH_HOST, SSH_USER, SSH_PRIVATE_KEY_PATH.
\* (SSH_PASSWORD and SSH_PORT select no branch of the program.)
Env(host, user, keyPath) == [host |-> host, user |-> user, keyPath |-> keyPath]
Envs ==
    {Env("", "u", "/root/.ssh/id_rsa"), Env("h", "", ""), Env("h", "u", ""),
     Env("h", "u", "/root/.ssh/id_rsa")}

----------------------------------------------------------------------------
(* Decoding and routing.                                                    *)

\* Unmarshal with the id taken for absent when it is 0 (an int field tested
\* against its zero value instead of a pointer tested against nil).
Unmarshal_ZeroIdIsNil(l) ==
    IF l.text # "object" \/ l.id.t \in {"frac", "big", "string"} \/ l.method.t = "number"
    THEN [err |-> TRUE, req |-> ZeroRequest]
    ELSE [err |-> FALSE,
          req |-> Request(IF l.id.t = "int" /\ l.id.n # 0
                          THEN IntPtr(FALSE, l.id.n) ELSE NilInt,
                          IF l.method.t = "string" THEN l.method.s ELSE "",
                          l.params)]

\* json.Unmarshal([]byte(line), &req): an error for text that is not a JSON
\* object and for a member whose JSON type does not fit its field (Id *int
\* takes null or an integer in int's range, Method string takes null or a
\* string, Params interface{} takes anything); a null or absent member leaves
\* the field at its zero value.
Unmarshal(l) ==
    IF l.text # "object" \/ l.id.t \in {"frac", "big", "string"} \/ l.method.t = "number"
    THEN [err |-> TRUE, req |-> ZeroRequest]
    ELSE [err |-> FALSE,
          req |-> Request(IF l.id.t = "int" THEN IntPtr(FALSE, l.id.n) ELSE NilInt,
                          IF l.method.t = "string" THEN l.method.s ELSE "",
                          l.params)]

\* The loop without its req.Id == nil test.
IdIsNil_NotTested(r) == FALSE

\* req.Id == nil
IdIsNil(r) == r.Id.nil

\* params, ok := req.Params.(map[string]interface{})
ParamsOk(r) == r.Params.t = "object"

\* The name taken with its ok result ignored.
NameOk_NotTested(r) == TRUE

\* name, ok := params["name"].(string)
NameOk(r) == r.Params.name.t = "string"

\* args, _ := params["arguments"].(map[string]interface{});  args["command"]
\* (indexing the nil map of a failed assertion yields nil).
ArgsCommand(r) ==
    IF r.Params.arguments.t = "object" THEN r.Params.arguments.command ELSE Absent

\* cmd, ok := args["command"].(string)
CommandOk(r) == ArgsCommand(r).t = "string"

\* The case of the two nested switches that a request with an id reaches.
Route(r) ==
    CASE r.Method = "initialize" -> "initialize"
      [] r.Method = "tools/list" -> "tools/list"
      [] r.Method = "tools/call" ->
            IF ~ParamsOk(r) THEN "invalid_params"
            ELSE IF ~NameOk(r) THEN "invalid_params"
            ELSE IF r.Params.name.s \in {"connect_ssh", "execute_command", "disconnect_ssh"}
                 THEN r.Params.name.s
                 ELSE "not_found"
      [] OTHER -> "not_found"

\* Marshal with "result" not under omitempty: a nil result is written as null.
Marshal_ResultNotOmitted(id, res, e) ==
    [id |-> id, result |-> TRUE, error |-> ~e.nil]

\* json.Marshal of the JSONRPCResponse: "id" always, "result" and "error"
\* under omitempty (left out for a nil interface and a nil pointer).
Marshal(id, res, e) ==
    [id |-> id, result |-> res.kind # "nil", error |-> ~e.nil]

----------------------------------------------------------------------------
(* The state machine.                                                       *)

Init ==
    /\ env \in Envs
    /\ pc = "scan"
    /\ line = NoLine
    /\ req = ZeroRequest
    /\ result = NilResult
    /\ rpcErr = NilError
    /\ client = 0
    /\ conns = <<>>
    /\ session = 0
    /\ sessions = <<>>
    /\ stdout = <<>>
    /\ nread = 0
    /\ accepted = <<>>
    /\ scanErr = ""

\* A well-formed request carrying an id: a JSON object whose members fit the
\* request envelope and whose id is an integer.  It is what the history
\* variable accepted records of a line as the scanner delivers it.
WellFormedWithId(l) ==
    /\ l.text = "object"
    /\ l.id.t = "int"
    /\ l.method.t \in {"absent", "string"}

world == <<env, client, conns, session, sessions>>
locals == <<req, result, rpcErr>>

\* scanner.Scan() returns true: the next line is in scanner.Text().
ScanLine ==
    /\ pc = "scan"
    /\ nread < MaxLines
    /\ \E l \in Lines :
        /\ l.text # "overlong"
        /\ line' = l
        /\ accepted' = IF WellFormedWithId(l) THEN Append(accepted, l.id.n) ELSE accepted
    /\ nread' = nread + 1
    /\ pc' = "handle"
    /\ UNCHANGED <<world, locals, stdout, scanErr>>

\* bufio.ErrTooLong
ErrTooLong == "bufio.Scanner: token too long"

\* scanner.Scan() returns false on a line longer than bufio.MaxScanTokenSize
\* (the scanner records ErrTooLong): the loop ends and main returns.
ScanTooLong ==
    /\ pc = "scan"
    /\ nread < MaxLines
    /\ \E l \in Lines : l.text = "overlong"
    /\ scanErr' = ErrTooLong
    /\ pc' = "exit"
    /\ UNCHANGED <<world, locals, line, stdout, nread, accepted>>

\* scanner.Scan() returns false at end of input.
ScanEOF ==
    /\ pc = "scan"
    /\ pc' = "exit"
    /\ UNCHANGED <<world, locals, line, stdout, nread, accepted, scanErr>>

Decoded == Unmarshal(line)

\* The loop left (break) where it should go on (continue).
Skip_Break ==
    /\ pc = "handle"
    /\ Decoded.err \/ IdIsNil(Decoded.req)
    /\ pc' = "exit"
    /\ UNCHANGED <<world, locals, line, stdout, nread, accepted, scanErr>>

\* The two `continue` statements: a line that does not decode, or has no id.
Skip ==
    /\ pc = "handle"
    /\ Decoded.err \/ IdIsNil(Decoded.req)
    /\ pc' = "scan"
    /\ UNCHANGED <<world, locals, line, stdout, nread, accepted, scanErr>>

\* The request reaches the switch.
Dispatched(route) ==
    /\ pc = "handle"
    /\ ~Decoded.err
    /\ ~IdIsNil(Decoded.req)
    /\ Route(Decoded.req) = route
    /\ req' = Decoded.req
    /\ line' = NoLine
    /\ UNCHANGED <<env, stdout, nread, accepted, scanErr>>

\* A case that ends with result or rpcErr set and nothing else touched.
Reply(res, e) ==
    /\ result' = res
    /\ rpcErr' = e
    /\ pc' = "write"

HandleInitialize ==
    /\ Dispatched("initialize")
    /\ Reply(InitializeResult, NilError)
    /\ UNCHANGED <<client, conns, session, sessions>>

\* tools/list that offers only connect_ssh while no connection is held.
HandleToolsList_ByState ==
    /\ Dispatched("tools/list")
    /\ IF client = 0
       THEN Reply([ListToolsResult EXCEPT !.tools = <<"connect_ssh">>], NilError)
       ELSE Reply(ListToolsResult, NilError)
    /\ UNCHANGED <<client, conns, session, sessions>>

HandleToolsList ==
    /\ Dispatched("tools/list")
    /\ Reply(ListToolsResult, NilError)
    /\ UNCHANGED <<client, conns, session, sessions>>

HandleInvalidParams ==
    /\ Dispatched("invalid_params")
    /\ Reply(NilResult, InvalidParams)
    /\ UNCHANGED <<client, conns, session, sessions>>

HandleNotFound ==
    /\ Dispatched("not_found")
    /\ Reply(NilResult, MethodNotFound)
    /\ UNCHANGED <<client, conns, session, sessions>>

----------------------------------------------------------------------------
(* SSHExecutor.                                                             *)

\* Error texts.  The first two are the program's; the others stand for what
\* os.ReadFile, ssh.ParsePrivateKey, ssh.Dial, NewSession and CombinedOutput
\* report.
ErrMissingConfig == "SSH_HOST and SSH_USER required"
ErrNotConnected == "not connected"
ErrReadFile == "open /root/.ssh/id_rsa: no such file or directory"
ErrParseKey == "ssh: no key found"
ErrDial == "ssh: handshake failed"
ErrNewSession == "ssh: unexpected packet in response to channel open"
ErrExit == "Process exited with status 1"
ErrTransport == "wait: remote command exited without exit status or exit signal"

\* The connection failure result without IsError: true.
ConnectFailed_NoFlag(err) == CallToolResult("Connection failed: " \o err, FALSE)

\* fmt.Sprintf("Connection failed: %v", err)
ConnectFailed(err) == CallToolResult("Connection failed: " \o err, TRUE)
Connected == CallToolResult("Connected to SSH server", FALSE)

\* fmt.Sprintf("Command failed: %v\nOutput: %s\nError: %s", err, output, stderr)
CommandFailed(err, output, stderr) ==
    CallToolResult("Command failed: " \o err \o "\nOutput: " \o output
                       \o "\nError: " \o stderr, TRUE)
\* fmt.Sprintf("Output:\n%s", output)
CommandOutput(output) == CallToolResult("Output:\n" \o output, FALSE)
CommandRequired == CallToolResult("command parameter required", TRUE)
Disconnected == CallToolResult("Disconnected from SSH server", FALSE)

\* What Connect does before it dials: the configuration check, then the key
\* file when a path is set.  "" stands for no error.
KeyOutcomes == IF env.keyPath = "" THEN {""} ELSE {"", ErrReadFile, ErrParseKey}
ConfigMissing == env.host = "" \/ env.user = ""

\* Connect that reads the key file before it checks host and user.
HandleConnect_KeyFirst ==
    /\ Dispatched("connect_ssh")
    /\ \E err \in KeyOutcomes :
          IF err # ""
          THEN Reply(ConnectFailed(err), NilError)
          ELSE IF ConfigMissing
          THEN Reply(ConnectFailed(ErrMissingConfig), NilError)
          ELSE /\ pc' = "dial"
               /\ UNCHANGED <<result, rpcErr>>
    /\ UNCHANGED <<client, conns, session, sessions>>

\* case "connect_ssh", up to the call of ssh.Dial.
HandleConnect ==
    /\ Dispatched("connect_ssh")
    /\ IF ConfigMissing
       THEN Reply(ConnectFailed(ErrMissingConfig), NilError)
       ELSE \E err \in KeyOutcomes :
              IF err # ""
              THEN Reply(ConnectFailed(err), NilError)
              ELSE /\ pc' = "dial"
                   /\ UNCHANGED <<result, rpcErr>>
    /\ UNCHANGED <<client, conns, session, sessions>>

\* s.client = client
Install(c) == client' = c

\* Connect that assigns the handle from ssh.Dial directly, so that a failed
\* dial leaves it nil.
DialReturns_ClearsOnFailure ==
    /\ pc = "dial"
    /\ \/ /\ Reply(ConnectFailed(ErrDial), NilError)
          /\ client' = 0
          /\ UNCHANGED conns
       \/ /\ conns' = Append(conns, "open")
          /\ Install(Len(conns) + 1)
          /\ Reply(Connected, NilError)
    /\ UNCHANGED <<env, req, line, session, sessions, stdout, nread, accepted, scanErr>>

\* ssh.Dial returns: an error, or a new client, which Connect stores.
DialReturns ==
    /\ pc = "dial"
    /\ \/ /\ Reply(ConnectFailed(ErrDial), NilError)
          /\ UNCHANGED <<client, conns>>
       \/ /\ conns' = Append(conns, "open")
          /\ Install(Len(conns) + 1)
          /\ Reply(Connected, NilError)
    /\ UNCHANGED <<env, req, line, session, sessions, stdout, nread, accepted, scanErr>>

\* execute_command that starts the command and goes back to reading without
\* waiting for it.
HandleExecute_Async ==
    /\ Dispatched("execute_command")
    /\ client # 0
    /\ CommandOk(Decoded.req)
    /\ sessions' = Append(sessions, "open")
    /\ session' = Len(sessions) + 1
    /\ pc' = "scan"
    /\ UNCHANGED <<result, rpcErr, client, conns>>

\* execute_command whose ExecuteCommand lacks the s.client == nil test.
HandleExecute_NoNilCheck ==
    /\ Dispatched("execute_command")
    /\ IF ~CommandOk(Decoded.req)
       THEN /\ Reply(CommandRequired, NilError)
            /\ UNCHANGED <<session, sessions>>
       ELSE /\ sessions' = Append(sessions, "open")
            /\ session' = Len(sessions) + 1
            /\ pc' = "run"
            /\ UNCHANGED <<result, rpcErr>>
    /\ UNCHANGED <<client, conns>>

\* execute_command that tests the connection before it tests the argument.
HandleExecute_ConnectedFirst ==
    /\ Dispatched("execute_command")
    /\ IF client = 0
       THEN /\ Reply(CommandFailed(ErrNotConnected, "", ""), NilError)
            /\ UNCHANGED <<session, sessions>>
       ELSE IF ~CommandOk(Decoded.req)
       THEN /\ Reply(CommandRequired, NilError)
            /\ UNCHANGED <<session, sessions>>
       ELSE \/ /\ Reply(CommandFailed(ErrNewSession, "", ""), NilError)
               /\ UNCHANGED <<session, sessions>>
            \/ /\ sessions' = Append(sessions, "open")
               /\ session' = Len(sessions) + 1
               /\ pc' = "run"
               /\ UNCHANGED <<result, rpcErr>>
    /\ UNCHANGED <<client, conns>>

\* case "execute_command", up to the call of CombinedOutput.
HandleExecute ==
    /\ Dispatched("execute_command")
    /\ IF ~CommandOk(Decoded.req)
       THEN /\ Reply(CommandRequired, NilError)
            /\ UNCHANGED <<session, sessions>>
       ELSE IF client = 0
       THEN /\ Reply(CommandFailed(ErrNotConnected, "", ""), NilError)
            /\ UNCHANGED <<session, sessions>>
       ELSE \/ /\ Reply(CommandFailed(ErrNewSession, "", ""), NilError)
               /\ UNCHANGED <<session, sessions>>
            \/ /\ sessions' = Append(sessions, "open")
               /\ session' = Len(sessions) + 1
               /\ pc' = "run"
               /\ UNCHANGED <<result, rpcErr>>
    /\ UNCHANGED <<client, conns>>

\* ExecuteCommand without its defer session.Close(): the channel stays open.
CloseSession_Forgotten ==
    /\ sessions' = sessions
    /\ session' = 0

\* defer session.Close()
CloseSession ==
    /\ sessions' = [sessions EXCEPT ![session] = "closed"]
    /\ session' = 0

\* ExecuteCommand that drops the connection when the command hits a transport
\* failure.
RunReturns_DisconnectOnFailure ==
    /\ pc = "run"
    /\ \/ /\ Reply(CommandOutput("hi\n"), NilError)
          /\ UNCHANGED <<client, conns>>
       \/ /\ Reply(CommandFailed(ErrExit, "", "grep: no match\n"), NilError)
          /\ UNCHANGED <<client, conns>>
       \/ /\ Reply(CommandFailed(ErrTransport, "", ""), NilError)
          /\ conns' = [conns EXCEPT ![client] = "closed"]
          /\ client' = 0
    /\ CloseSession
    /\ UNCHANGED <<env, req, line, stdout, nread, accepted, scanErr>>

\* CombinedOutput returns: the command's output, or an error with what was
\* captured (a non-zero exit, or a transport failure with nothing captured).
RunReturns ==
    /\ pc = "run"
    /\ \/ Reply(CommandOutput("hi\n"), NilError)
       \/ Reply(CommandFailed(ErrExit, "", "grep: no match\n"), NilError)
       \/ Reply(CommandFailed(ErrTransport, "", ""), NilError)
    /\ CloseSession
    /\ UNCHANGED <<env, req, line, client, conns, stdout, nread, accepted, scanErr>>

\* Disconnect that closes the client and keeps the handle.
Disconnect_KeepsHandle ==
    IF client # 0
    THEN /\ conns' = [conns EXCEPT ![client] = "closed"]
         /\ client' = client
    ELSE UNCHANGED <<client, conns>>

\* SSHExecutor.Disconnect
Disconnect ==
    IF client # 0
    THEN /\ conns' = [conns EXCEPT ![client] = "closed"]
         /\ client' = 0
    ELSE UNCHANGED <<client, conns>>

\* disconnect_ssh that reports a failure when no connection is held.
HandleDisconnect_FailsWhenNotConnected ==
    /\ Dispatched("disconnect_ssh")
    /\ IF client = 0
       THEN Reply(CallToolResult("Disconnect failed: not connected", TRUE), NilError)
       ELSE Reply(Disconnected, NilError)
    /\ Disconnect
    /\ UNCHANGED <<session, sessions>>

\* case "disconnect_ssh"
HandleDisconnect ==
    /\ Dispatched("disconnect_ssh")
    /\ Disconnect
    /\ Reply(Disconnected, NilError)
    /\ UNCHANGED <<session, sessions>>

\* resp := JSONRPCResponse{Id: *req.Id, Result: result, Error: rpcErr};
\* json.Marshal; fmt.Println.  The next iteration declares req, result and
\* rpcErr afresh.
Write ==
    /\ pc = "write"
    /\ stdout' = Append(stdout, Marshal(req.Id.v, result, rpcErr))
    /\ pc' = "scan"
    /\ req' = ZeroRequest
    /\ result' = NilResult
    /\ rpcErr' = NilError
    /\ UNCHANGED <<world, line, nread, accepted, scanErr>>

Next ==
    \/ ScanLine
    \/ ScanTooLong
    \/ ScanEOF
    \/ Skip
    \/ HandleInitialize
    \/ HandleToolsList
    \/ HandleInvalidParams
    \/ HandleNotFound
    \/ HandleConnect
    \/ DialReturns
    \/ HandleExecute
    \/ RunReturns
    \/ HandleDisconnect
    \/ Write

Spec == Init /\ [][Next]_vars

----------------------------------------------------------------------------
(* Vocabulary of the properties, stated on the input line as it was read,   *)
(* not on what the program decoded from it.                                 *)

\* The method and the request of a well-formed line.
MethodOf(l) == IF l.method.t = "string" THEN l.method.s ELSE ""
RequestOf(l) == Request(IntPtr(FALSE, l.id.n), MethodOf(l), l.params)

\* A line that parses as a request envelope but carries no id.
WellFormedWithoutId(l) ==
    /\ l.text = "object"
    /\ l.id.t \in {"absent", "null"}
    /\ l.method.t \in {"absent", "string"}

\* A line that does not parse as a request envelope.
Unparseable(l) ==
    l.text = "notjson" \/ (l.text = "object" /\ ~WellFormedWithId(l) /\ ~WellFormedWithoutId(l))

\* A request being handled: read and not yet answered.
InFlight == pc \in {"dial", "run", "write"} \/ (pc = "handle" /\ WellFormedWithId(line))

\* The ids of the responses written, in order.
IdsOf(out) == [i \in 1..Len(out) |-> out[i].id]

\* How many times x occurs in the sequence q.
Count(q, x) == Cardinality({i \in 1..Len(q) : q[i] = x})

\* A tools/call whose params are a mapping with a string name.
WellShapedCall(r) ==
    r.Method = "tools/call" /\ r.Params.t = "object" /\ r.Params.name.t = "string"
ToolNames == {"connect_ssh", "execute_command", "disconnect_ssh"}
\* A tools/call that names tool.
Calls(r, tool) == WellShapedCall(r) /\ r.Params.name.s = tool
\* The request has a string command argument.
HasStringCommand(r) ==
    r.Params.arguments.t = "object" /\ r.Params.arguments.command.t = "string"

----------------------------------------------------------------------------
(* C1 *)

----------------------------------------------------------------------------
(* C2 *)

\* C2: at most one connection is live and none is leaked: every connection
\* ever opened is the one the executor holds or has been closed.
C2_NoLeakedConnection ==
    \A i \in 1..Len(conns) : conns[i] = "open" => client = i

----------------------------------------------------------------------------
(* C3 *)

\* A step of a strictly sequential dispatcher: a line is read only when every
\* request read before has its response on the output and no remote
\* operation is under way; output only grows at its end, by the response to
\* the oldest unanswered request; and the held connection is released only
\* when no command is running.
C3_SequentialStep ==
    /\ nread' # nread =>
          /\ IdsOf(stdout) = accepted
          /\ session = 0
          /\ pc \notin {"dial", "run"}
    /\ stdout' # stdout =>
          /\ Len(stdout') = Len(stdout) + 1
          /\ SubSeq(stdout', 1, Len(stdout)) = stdout
          /\ Len(stdout') <= Len(accepted)
          /\ stdout'[Len(stdout')].id = accepted[Len(stdout')]
    /\ client' # client => session = 0 /\ session' = 0

\* At most one request is in flight; a channel is open only while the one
\* request in flight is an execute_command waiting for its command.
C3_OneInFlight ==
    /\ Len(accepted) - Len(stdout) = (IF InFlight THEN 1 ELSE 0)
    /\ session # 0 => pc = "run" /\ Calls(req, "execute_command")
    /\ pc \in {"scan", "exit"} => IdsOf(stdout) = accepted

\* C3: processing is strictly sequential and order-preserving: the ids on the
\* output are the ids of the id-bearing parseable requests in input order,
\* each response is written before the next line is read, and a disconnect
\* never runs while a command is in progress.
C3_Sequential == []C3_OneInFlight /\ [][C3_SequentialStep]_vars

\* A command is running on a held connection, after two answered requests
\* with different ids.
C3_Witness ==
    /\ pc = "run"
    /\ session # 0
    /\ client # 0
    /\ IdsOf(stdout) = <<0, -1>>
    /\ accepted = <<0, -1, -1>>

----------------------------------------------------------------------------
(* C4 *)

\* C4: every response written carries exactly one of result and error, and
\* so does the response about to be written.
C4_ResultXorError ==
    /\ \A i \in 1..Len(stdout) : stdout[i].result # stdout[i].error
    /\ pc = "write" => (result.kind # "nil") # (~rpcErr.nil)

\* Responses of both kinds have been written: a result, then an error, then a
\* tool result of a failed command.
C4_Witness ==
    /\ Len(stdout) = 2
    /\ stdout[1].result /\ stdout[2].error
    /\ pc = "write"
    /\ result.isError
    /\ Calls(req, "execute_command")
    /\ client # 0

----------------------------------------------------------------------------
(* C5 *)

\* The line being handled is a tools/call of tool carrying an id.
Handling(tool) ==
    pc = "handle" /\ WellFormedWithId(line) /\ Calls(RequestOf(line), tool)

NotConnectedText == "Command failed: not connected\nOutput: \nError: "

\* Handling execute_command while no connect_ssh has succeeded yet.
C5_Step ==
    (Handling("execute_command") /\ conns = <<>>) =>
        /\ pc' = "write"
        /\ result'.kind = "call" /\ result'.isError
        /\ rpcErr'.nil
        /\ HasStringCommand(RequestOf(line)) => result'.text = NotConnectedText
        /\ sessions' = sessions /\ session' = 0
        /\ client' = 0 /\ conns' = <<>>

\* Writing the response to it.
C5_WriteStep ==
    (pc = "write" /\ Calls(req, "execute_command") /\ conns = <<>>) =>
        stdout' = Append(stdout, [id |-> req.Id.v, result |-> TRUE, error |-> FALSE])

\* C5: while no connect_ssh has succeeded, execute_command yields a tool
\* result with isError true and no error object, saying "not connected" when
\* the command is a string, and opens no execution channel.
C5_NotConnected == [][C5_Step /\ C5_WriteStep]_vars

\* The not-connected result is about to be written, after an earlier request
\* was answered and with a configuration under which connecting can be tried.
C5_Witness ==
    /\ pc = "write"
    /\ Calls(req, "execute_command") /\ HasStringCommand(req)
    /\ conns = <<>>
    /\ result = CallToolResult(NotConnectedText, TRUE)
    /\ Len(stdout) = 1
    /\ ~ConfigMissing

----------------------------------------------------------------------------
(* C6 *)

\* Whether the operation whose result this step produces failed, told from
\* what the Session Manager did: a connect fails when no connection comes
\* into being, a disconnect never fails, a command fails when none was run
\* or when its run did not end with its output.
C6_Failed(tool) ==
    CASE tool = "connect_ssh" -> conns' = conns
      [] tool = "disconnect_ssh" -> FALSE
      [] tool = "execute_command" -> pc # "run" \/ result'.text # "Output:\nhi\n"

\* A step that produces the result of a call of one of the three tools.
C6_Step ==
    \A tool \in ToolNames :
        (pc \in {"handle", "dial", "run"} /\ pc' = "write" /\ Calls(req', tool)) =>
            /\ result'.kind = "call"
            /\ rpcErr'.nil
            /\ result'.isError = C6_Failed(tool)

\* Writing it.
C6_WriteStep ==
    (pc = "write" /\ \E tool \in ToolNames : Calls(req, tool)) =>
        stdout' = Append(stdout, [id |-> req.Id.v, result |-> TRUE, error |-> FALSE])

\* C6: a tools/call that reaches one of the three tools always produces a
\* result and no error object; isError is true exactly when the operation
\* failed.
C6_ChannelsNotConflated == [][C6_Step /\ C6_WriteStep]_vars

\* A command that exited non-zero on a held connection is reported as a
\* result with isError.
C6_Witness ==
    /\ pc = "write"
    /\ Calls(req, "execute_command")
    /\ client # 0
    /\ result = CommandFailed(ErrExit, "", "grep: no match\n")
    /\ rpcErr.nil

----------------------------------------------------------------------------
(* C7 *)

\* C7: a parseable request without an id is dropped: the step that handles
\* it writes nothing, builds no response, touches neither the held connection
\* nor any connection or channel, and returns to reading.
C7_NotificationIgnored ==
    [][(pc = "handle" /\ WellFormedWithoutId(line)) =>
          /\ pc' = "scan"
          /\ stdout' = stdout
          /\ UNCHANGED <<client, conns, session, sessions>>
          /\ UNCHANGED <<req, result, rpcErr>>]_vars

\* A disconnect_ssh without an id has been dropped while a connection is
\* held: the connection is still held and open, and only the one earlier
\* request has a response.
C7_Witness ==
    /\ pc = "scan"
    /\ WellFormedWithoutId(line)
    /\ Calls(RequestOf(line), "disconnect_ssh")
    /\ client # 0 /\ conns[client] = "open"
    /\ nread = 2 /\ Len(stdout) = 1

----------------------------------------------------------------------------
(* C8 *)

\* C8: an unparseable line is dropped: the step that handles it writes
\* nothing, leaves the session as it was, and returns to reading (the loop
\* does not end), where the next line is read as long as there is one.
C8_UnparseableDropped ==
    /\ [][(pc = "handle" /\ Unparseable(line)) =>
             /\ pc' = "scan"
             /\ stdout' = stdout
             /\ UNCHANGED <<client, conns, session, sessions>>]_vars
    /\ [](pc = "scan" /\ Unparseable(line) /\ nread < MaxLines => ENABLED ScanLine)

\* Text that is no JSON has been dropped while a connection is held.
C8_Witness ==
    /\ pc = "scan"
    /\ line.text = "notjson"
    /\ client # 0 /\ conns[client] = "open"
    /\ nread = 2 /\ Len(stdout) = 1

----------------------------------------------------------------------------
(* C9 *)

\* A tools/call whose params are no mapping or hold no string name.
MalformedCall(r) ==
    r.Method = "tools/call" /\ (r.Params.t # "object" \/ r.Params.name.t # "string")

\* C9: a tools/call with an id whose params are not a mapping, or whose name
\* is missing or no string, gets error -32602 and no result; the Session
\* Manager is not invoked and the session is unchanged.
C9_InvalidParams ==
    [][/\ (pc = "handle" /\ WellFormedWithId(line) /\ MalformedCall(RequestOf(line))) =>
            /\ pc' = "write"
            /\ rpcErr' = RPCError(-32602, "Invalid params")
            /\ result'.kind = "nil"
            /\ UNCHANGED <<client, conns, session, sessions>>
       /\ (pc = "write" /\ MalformedCall(req)) =>
            /\ stdout' = Append(stdout, [id |-> req.Id.v, result |-> FALSE, error |-> TRUE])
            /\ UNCHANGED <<client, conns, session, sessions>>]_vars

\* Invalid params is about to be answered to a call with array params, while
\* a connection is held.
C9_Witness ==
    /\ pc = "write"
    /\ req.Method = "tools/call" /\ req.Params.t = "array"
    /\ rpcErr.code = -32602
    /\ client # 0 /\ conns[client] = "open"

----------------------------------------------------------------------------
(* C10 *)

\* A method that is none of the three, or a well-shaped call of an unknown tool.
UnknownMethodOrTool(r) ==
    \/ r.Method \notin {"initialize", "tools/list", "tools/call"}
    \/ WellShapedCall(r) /\ r.Params.name.s \notin ToolNames

\* C10: a request with an id whose method is unknown, or a well-shaped
\* tools/call of an unknown tool, gets error -32601 and no result, and the
\* session is unchanged.
C10_MethodNotFound ==
    [][/\ (pc = "handle" /\ WellFormedWithId(line) /\ UnknownMethodOrTool(RequestOf(line))) =>
            /\ pc' = "write"
            /\ rpcErr'.code = -32601 /\ ~rpcErr'.nil
            /\ result'.kind = "nil"
            /\ UNCHANGED <<client, conns, session, sessions>>
       /\ (pc = "write" /\ UnknownMethodOrTool(req)) =>
            /\ stdout' = Append(stdout, [id |-> req.Id.v, result |-> FALSE, error |-> TRUE])
            /\ UNCHANGED <<client, conns, session, sessions>>]_vars

\* Method not found is about to be answered to a call of an unknown tool,
\* while a connection is held.
C10_Witness ==
    /\ pc = "write"
    /\ Calls(req, "unknown_tool")
    /\ rpcErr.code = -32601
    /\ client # 0 /\ conns[client] = "open"

----------------------------------------------------------------------------
(* C11 *)

\* C11: disconnect_ssh never fails and is idempotent: in every state it
\* yields the confirmation text without isError and no error object; a held
\* connection is closed and the handle emptied, every other connection is
\* left as it is; with no connection held nothing changes, so a second
\* disconnect_ssh, which finds the handle empty, closes nothing again.
C11_DisconnectIdempotent ==
    [][Handling("disconnect_ssh") =>
          /\ pc' = "write"
          /\ result' = CallToolResult("Disconnected from SSH server", FALSE)
          /\ rpcErr'.nil
          /\ client' = 0
          /\ Len(conns') = Len(conns)
          /\ \A i \in 1..Len(conns) :
                conns'[i] = (IF i = client THEN "closed" ELSE conns[i])
          /\ client = 0 => conns' = conns
          /\ UNCHANGED <<session, sessions>>]_vars

\* After a connect_ssh and a disconnect_ssh that closed the connection (only
\* Disconnect closes one), a second disconnect_ssh is being handled with the
\* handle empty.
C11_Witness ==
    /\ Handling("disconnect_ssh")
    /\ nread = 3 /\ Len(stdout) = 2
    /\ client = 0
    /\ conns = <<"closed">>

----------------------------------------------------------------------------
(* C12 *)

\* C12: a disconnect_ssh empties the handle whatever was connected before;
\* the handle stays empty until a connect_ssh succeeds; and while it is empty
\* after some connect_ssh had succeeded, execute_command with a string
\* command yields the not-connected result with isError and opens no channel.
C12_NotConnectedAfterDisconnect ==
    [][/\ Handling("disconnect_ssh") => client' = 0
       /\ (client = 0 /\ client' # 0) => (pc = "dial" /\ Calls(req, "connect_ssh"))
       /\ (/\ Handling("execute_command")
           /\ HasStringCommand(RequestOf(line))
           /\ client = 0
           /\ conns # <<>>) =>
               /\ pc' = "write"
               /\ result' = CallToolResult(NotConnectedText, TRUE)
               /\ rpcErr'.nil
               /\ UNCHANGED <<client, conns, session, sessions>>]_vars

\* connect_ssh succeeded twice, a disconnect_ssh followed, and the
\* execute_command after it is answered not connected.
C12_Witness ==
    /\ pc = "write"
    /\ nread = 4 /\ Len(stdout) = 3
    /\ Len(conns) = 2 /\ conns[2] = "closed"
    /\ client = 0
    /\ Calls(req, "execute_command") /\ HasStringCommand(req)
    /\ result = CallToolResult(NotConnectedText, TRUE)

----------------------------------------------------------------------------
(* C13 *)

\* The line being handled is a request with an id for method.
HandlingMethod(method) ==
    pc = "handle" /\ WellFormedWithId(line) /\ MethodOf(line) = method

\* C13: tools/list and initialize are pure and independent of the state:
\* whatever the params and the connection state, tools/list yields the three
\* tools connect_ssh, execute_command, disconnect_ssh in that order,
\* initialize yields the one fixed descriptor, and neither touches the
\* session manager.
C13_ListAndInitializePure ==
    [][/\ HandlingMethod("tools/list") =>
            /\ pc' = "write"
            /\ result'.kind = "tools"
            /\ result'.tools = <<"connect_ssh", "execute_command", "disconnect_ssh">>
            /\ rpcErr'.nil
            /\ UNCHANGED <<client, conns, session, sessions>>
       /\ HandlingMethod("initialize") =>
            /\ pc' = "write"
            /\ result' = [kind |-> "initialize", text |-> "2024-11-05",
                          isError |-> FALSE, tools |-> <<>>]
            /\ rpcErr'.nil
            /\ UNCHANGED <<client, conns, session, sessions>>]_vars

\* The catalog is about to be answered to a tools/list that carries params,
\* after a disconnect: a connection was opened and closed, none is held.
C13_Witness ==
    /\ pc = "write"
    /\ req.Method = "tools/list" /\ req.Params.t = "object"
    /\ result.tools = <<"connect_ssh", "execute_command", "disconnect_ssh">>
    /\ client = 0 /\ conns = <<"closed">>

----------------------------------------------------------------------------
(* C14 *)

\* C14: with SSH_HOST or SSH_USER empty, connect_ssh fails at once with the
\* missing-configuration text as a tool result with isError: the key file's
\* outcome plays no part, ssh.Dial is never reached, and the session is as
\* it was.
C14_MissingConfig ==
    /\ [][(Handling("connect_ssh") /\ (env.host = "" \/ env.user = "")) =>
             /\ pc' = "write"
             /\ result' = CallToolResult(
                    "Connection failed: SSH_HOST and SSH_USER required", TRUE)
             /\ rpcErr'.nil
             /\ UNCHANGED <<client, conns, session, sessions>>]_vars
    /\ [](pc = "dial" => env.host # "" /\ env.user # "")

\* The missing-configuration result is about to be written under an
\* environment without host but with a key path.
C14_Witness ==
    /\ pc = "write"
    /\ Calls(req, "connect_ssh")
    /\ env.host = "" /\ env.keyPath # ""
    /\ result.text = "Connection failed: SSH_HOST and SSH_USER required"
    /\ result.isError
    /\ client = 0

----------------------------------------------------------------------------
(* C15 *)

\* C15: the dispatcher stops only at the end of its input: when the read loop
\* has been left, the scanner met no error, so every line of the input was
\* delivered and handled and no request ended the loop early.
C15_StopsOnlyAtEndOfInput ==
    pc = "exit" => scanErr = ""

----------------------------------------------------------------------------
(* C16 *)

\* Handling execute_command with a string command while a connection is held.
RunningCommand ==
    Handling("execute_command") /\ HasStringCommand(RequestOf(line)) /\ client # 0

\* C16 as stated: every execute_command on a held session opens exactly one
\* fresh execution channel.
C16_AlwaysOpensOneChannel ==
    [][RunningCommand => sessions' = Append(sessions, "open")]_vars

\* The steps of an execute_command on a held session: one NewSession, which
\* either fails, and then no channel exists and the failure is the result, or
\* yields a channel that never existed before; the channel is closed in the
\* step in which the command returns, whatever it returns; and a closed
\* channel is never open again.
C16_Step ==
    /\ RunningCommand =>
          \/ /\ pc' = "run"
             /\ sessions' = Append(sessions, "open")
             /\ session' = Len(sessions) + 1
          \/ /\ pc' = "write"
             /\ sessions' = sessions /\ session' = 0
             /\ result' = CallToolResult(
                    "Command failed: " \o ErrNewSession \o "\nOutput: \nError: ", TRUE)
    /\ pc = "run" =>
          /\ pc' = "write"
          /\ sessions' = [sessions EXCEPT ![session] = "closed"]
          /\ session' = 0
    /\ Len(sessions') >= Len(sessions)
    /\ \A i \in 1..Len(sessions) : sessions[i] = "closed" => sessions'[i] = "closed"

\* A channel is open only while its command runs, and it is the newest one.
C16_OpenOnlyWhileRunning ==
    /\ pc = "run" => session = Len(sessions) /\ sessions[session] = "open"
    /\ pc # "run" => session = 0
    /\ \A i \in 1..Len(sessions) : sessions[i] = "open" => (pc = "run" /\ i = session)

\* C16 (amended): each execute_command with a string command on a held
\* session makes one attempt to open an execution channel; when it succeeds
\* the channel is a fresh one, is closed by the time the response is emitted
\* on the success and on the failure path, and is never used again, so no
\* channel is open whenever the next line is read; when the attempt fails no
\* channel is opened.
C16_FreshChannelClosed == []C16_OpenOnlyWhileRunning /\ [][C16_Step]_vars

\* Two commands have run on the held connection, each on its own channel,
\* both closed; the second ended with a transport failure.
C16_Witness ==
    /\ pc = "write"
    /\ Calls(req, "execute_command")
    /\ client # 0
    /\ sessions = <<"closed", "closed">>
    /\ result = CommandFailed(ErrTransport, "", "")

----------------------------------------------------------------------------
(* C17 *)

\* A step of an execute_command: its dispatch, or the return of its command.
ExecuteStep == Handling("execute_command") \/ pc = "run"

\* Steps of execute_command leave the handle and every connection alone; the
\* dispatch makes at most one NewSession and goes on to at most one run, the
\* return of the run goes straight to the response with no second channel and
\* no second run; the handle changes only when ssh.Dial returns for a
\* connect_ssh or when a disconnect_ssh is handled.
C17_Step ==
    /\ ExecuteStep => client' = client /\ conns' = conns
    /\ Handling("execute_command") =>
          /\ pc' \in {"run", "write"}
          /\ Len(sessions') \in {Len(sessions), Len(sessions) + 1}
          /\ pc' = "run" <=> Len(sessions') = Len(sessions) + 1
    /\ pc = "run" =>
          /\ Calls(req, "execute_command")
          /\ pc' = "write"
          /\ Len(sessions') = Len(sessions)
    /\ Len(sessions') # Len(sessions) => Handling("execute_command")
    /\ client' # client =>
          \/ pc = "dial" /\ Calls(req, "connect_ssh")
          \/ Handling("disconnect_ssh")

\* C17: execute_command never changes the session handle and never retries:
\* per request at most one channel-open attempt and at most one command run,
\* and after success, non-zero exit or transport failure the same session is
\* held; only connect_ssh and disconnect_ssh change which session is held.
C17_ExecuteKeepsHandle == [][C17_Step]_vars

\* After one connect, a second command on the same connection has exited
\* non-zero, and that connection is still the one held, open.
C17_Witness ==
    /\ pc = "write"
    /\ Calls(req, "execute_command")
    /\ result = CommandFailed(ErrExit, "", "grep: no match\n")
    /\ Len(sessions) = 2
    /\ client = 1
    /\ conns = <<"open">>

----------------------------------------------------------------------------
(* C18 *)

\* A step in which a connect_ssh ends in failure: at the configuration or key
\* check, or when ssh.Dial returns an error.
ConnectFails ==
    /\ Handling("connect_ssh") \/ pc = "dial"
    /\ pc' = "write"
    /\ result'.isError

\* A failing connect_ssh changes neither the handle nor any connection nor any
\* channel; a held connection is an open one; and an execute_command that
\* finds a handle goes to NewSession on it and is never told it is not
\* connected.
C18_Step ==
    /\ ConnectFails =>
          /\ Calls(req', "connect_ssh")
          /\ UNCHANGED <<client, conns, session, sessions>>
    /\ RunningCommand =>
          /\ client' = client
          /\ \/ pc' = "run"
             \/ result' = CommandFailed(ErrNewSession, "", "")

\* The handle, when set, is a connection that is open.
C18_HeldIsOpen ==
    client # 0 => client \in 1..Len(conns) /\ conns[client] = "open"

\* C18: a connect_ssh that fails for any reason leaves the session state as
\* it was: a held session stays held and open, so a following execute_command
\* still runs on it, and if none was held none is held afterwards.
C18_FailedConnectKeepsSession == []C18_HeldIsOpen /\ [][C18_Step]_vars

\* With a connection held, a second connect_ssh has failed in ssh.Dial and the
\* first connection is still the one held, open.
C18_Witness ==
    /\ pc = "write"
    /\ Calls(req, "connect_ssh")
    /\ result = ConnectFailed(ErrDial)
    /\ client = 1
    /\ conns = <<"open">>

----------------------------------------------------------------------------
(* C19 *)

\* An execute_command without a string command is answered at once with the
\* command-required tool error and no JSON-RPC error, whether or not a
\* connection is held, and the step touches no handle, connection or channel.
C19_Step ==
    Handling("execute_command") /\ ~HasStringCommand(RequestOf(line)) =>
        /\ pc' = "write"
        /\ result' = CallToolResult("command parameter required", TRUE)
        /\ rpcErr' = NilError
        /\ UNCHANGED <<client, conns, session, sessions>>

\* C19: execute_command whose arguments are absent, not a mapping, or lack a
\* string command yields a tool result with isError true and the
\* command-required message in every connection state, without opening a
\* channel or changing the handle; the argument check precedes the
\* not-connected check.
C19_CommandRequiredFirst == [][C19_Step]_vars

\* Not connected, arguments that are no mapping: the answer is
\* command-required, not the not-connected failure.
C19_Witness ==
    /\ pc = "write"
    /\ Calls(req, "execute_command")
    /\ ~HasStringCommand(req)
    /\ client = 0
    /\ result = CallToolResult("command parameter required", TRUE)

\* Connected, no string command: the same answer, the connection still held.
C19_WitnessConnected ==
    /\ pc = "write"
    /\ Calls(req, "execute_command")
    /\ ~HasStringCommand(req)
    /\ client # 0
    /\ result = CallToolResult("command parameter required", TRUE)

====
